---- MODULE Spec2Model ----
(***************************************************************************)
(* Verification model of the deterministic-commitment core of bp-core:     *)
(*   - the LNPBP-2 lock-script commitment (dbc/src/lockscript.rs),         *)
(*   - the blinded TxO seal and its text codec (seals/src/txout/blind.rs,  *)
(*     seals/src/lib.rs),                                                  *)
(*   - the taproot primitives (primitives/src/taproot.rs).                 *)
(*                                                                         *)
(* Abstractions.  A curve point is the integer k standing for k*G in a     *)
(* group whose order is far above every value the model reaches; -k is the *)
(* negation of k and 0 the point at infinity.  hash160 and HMAC-SHA256 are *)
(* collision-free: they are injective encodings of their inputs.  A script *)
(* is the sequence of the Miniscript fragments it parses to.               *)
(***************************************************************************)
EXTENDS Integers, Sequences, FiniteSets, TLC

VARIABLES
    container,      \* the LockscriptContainer embed_commit works on
    last,           \* the latest embed_commit call: message and returned value
    verification,   \* the latest verify call on the latest commitment
    seal,           \* a RevealedSeal
    text,           \* a string, as the sequence of its characters
    displayed,      \* whether text is seal.to_string()
    parsed,         \* the value RevealedSeal::from_str returned for text
    other,          \* a second RevealedSeal
    hashed,         \* the byte strings ConcealedSeal::commit hashed for seal and other
    call,           \* a call of a pure function: its name and its arguments
    returned        \* the value the call returned

lockvars == <<container, last, verification>>

sealvars == <<seal, text, displayed, parsed>>

concealvars == <<other, hashed>>

callvars == <<call, returned>>

vars == <<container, last, verification, seal, text, displayed, parsed, other, hashed,
          call, returned>>

-----------------------------------------------------------------------------
(* Bounds *)

\* longest script, in Miniscript fragments
MaxScriptLen == 2

\* messages are 0..MaxMsg
MaxMsg == 1

Msgs == 0..MaxMsg

\* two protocol tags
Tags == {0, 1}

-----------------------------------------------------------------------------
(* Values *)

\* Option::None of tweaking_factor (every factor is positive)
None == 0

\* secp256k1 points used as keys: G, 2G and -G
Keys == {1, 2, -1}

Abs(k) == IF k < 0 THEN -k ELSE k

Min(S) == CHOOSE x \in S : \A y \in S : x <= y

\* bitcoin::PublicKey values occurring in scripts: a point and its encoding flag
PublicKeys ==
    {[key |-> k, compressed |-> TRUE] : k \in Keys}
        \cup {[key |-> 1, compressed |-> FALSE]}

\* bitcoin::PublicKey::to_bytes: SEC1 serialisation; the prefix is 02/03 by the
\* parity of y for the compressed form, 04 (followed by x and y) otherwise
to_bytes(pk) ==
    IF pk.compressed
    THEN (IF pk.key > 0 THEN 2 ELSE 3) * 10000 + Abs(pk.key)
    ELSE 4 * 10000 + (IF pk.key > 0 THEN 0 ELSE 5000) + Abs(pk.key)

\* hash160::Hash::hash, collision-free
hash160(bytes) == 100000 + bytes

\* a 20-byte value that is the hash of no key ([i; 20] of gen_test_data)
DummyHash == 7

\* the hashes in pk_h fragments: those of the two encodings of G, and a dummy
ScriptHashes ==
    {hash160(to_bytes(pk)) : pk \in {q \in PublicKeys : q.key = 1}}
        \cup {DummyHash}

\* Miniscript fragments
PkItem(pk) ==
    [op |-> "pk", key |-> pk.key, compressed |-> pk.compressed, hash |-> None]

PkhItem(h) == [op |-> "pk_h", key |-> None, compressed |-> TRUE, hash |-> h]

OtherItem(name, h) == [op |-> name, key |-> None, compressed |-> TRUE, hash |-> h]

Items ==
    {PkItem(pk) : pk \in PublicKeys}
        \cup {PkhItem(h) : h \in ScriptHashes}
        \cup {OtherItem("older", None), OtherItem("hash160", DummyHash),
              OtherItem("invalid", None), OtherItem("untranslatable", None)}

SeqsUpTo(S, n) == UNION {[1..m -> S] : m \in 0..n}

Scripts == SeqsUpTo(Items, MaxScriptLen)

\* the orders in which a set can be iterated
Enumerations(S) ==
    {s \in [1..Cardinality(S) -> S] : \A i, j \in DOMAIN s : s[i] = s[j] => i = j}

-----------------------------------------------------------------------------
(* Script parser (bitcoin_scripts::LockScript over rust-miniscript) *)

\* parse_insane::<Segwitv0> fails on a script that is no Miniscript of that
\* context: the empty script, one with a fragment that is none, or one with a
\* key in uncompressed encoding (the context admits compressed keys only)
parses(script) ==
    /\ script # <<>>
    /\ \A i \in DOMAIN script :
          /\ script[i].op # "invalid"
          /\ script[i].op = "pk" => script[i].compressed

\* LockScript::extract_pubkey_hash_set: the keys and the hashes of the pk and
\* pk_h fragments; the keys of a script that parses are compressed, so that
\* the set holds every point once
extract_pubkey_hash_set(script) ==
    IF ~parses(script)
    THEN [ok |-> FALSE, keys |-> {}, hashes |-> {}]
    ELSE [ok |-> TRUE,
          keys |-> {[key |-> script[i].key, compressed |-> script[i].compressed] :
                        i \in {j \in DOMAIN script : script[j].op = "pk"}},
          hashes |-> {script[i].hash :
                        i \in {j \in DOMAIN script : script[j].op = "pk_h"}}]

\* LockScript::replace_pubkeys_and_hashes: the script is parsed again, every pk
\* and pk_h fragment is passed through the processors and every other fragment
\* is kept. It returns a Result: Err when the script does not parse, or when it
\* parses and holds a fragment that cannot be translated
replace_pubkeys_and_hashes(script, key_processor, hash_processor) ==
    IF ~parses(script) \/ \E i \in DOMAIN script : script[i].op = "untranslatable"
    THEN [ok |-> FALSE, script |-> <<>>]
    ELSE [ok |-> TRUE,
          script |->
              [i \in DOMAIN script |->
                  IF script[i].op = "pk"
                  THEN PkItem(key_processor[
                           [key |-> script[i].key,
                            compressed |-> script[i].compressed]])
                  ELSE IF script[i].op = "pk_h"
                  THEN PkhItem(hash_processor[script[i].hash])
                  ELSE script[i]]]

-----------------------------------------------------------------------------
(* LNPBP-1 key-set commitment *)

\* HMAC-SHA256 keyed by the sum of the keys over the tag and the message,
\* collision-free
Hmac(sum, tag, msg) == 100 + msg + (MaxMsg + 1) * (tag + Cardinality(Tags) * (sum + 2))

\* sum of the target key and the other keys of the set, taken in the order of
\* the sorted set; 0 when a partial sum is the point at infinity
RECURSIVE combine(_, _)
combine(sum, rest) ==
    IF rest = {} THEN sum
    ELSE LET k == Min(rest)
         IN IF sum + k = 0 THEN 0 ELSE combine(sum + k, rest \ {k})

\* KeysetCommitment::embed_commit
KeysetCommitment_embed_commit(kc, msg) ==
    LET sum == combine(kc.pubkey, kc.keyset \ {kc.pubkey})
        factor == Hmac(sum, kc.tag, msg)
        tweaked == kc.pubkey + factor
    IN IF sum = 0
       THEN [ok |-> FALSE, err |-> "SumInfiniteResult",
             tweaked_pubkey |-> 0, tweaking_factor |-> kc.tweaking_factor]
       ELSE IF tweaked = 0
       THEN [ok |-> FALSE, err |-> "InvalidTweak",
             tweaked_pubkey |-> 0, tweaking_factor |-> kc.tweaking_factor]
       ELSE [ok |-> TRUE, err |-> "",
             tweaked_pubkey |-> tweaked, tweaking_factor |-> factor]

-----------------------------------------------------------------------------
(* LNPBP-2 lock-script commitment *)

Err(c, e) ==
    [ok |-> FALSE, err |-> e, script |-> <<>>, found |-> 0, container |-> c]

\* original_hash of embed_commit
original_hash(c) == hash160(to_bytes([key |-> c.pubkey, compressed |-> TRUE]))

\* faulty variant: the keys are hashed in uncompressed encoding
key_hashes_uncompressed(c, keys_iter) ==
    {hash160(to_bytes([key |-> keys_iter[i].key, compressed |-> FALSE])) :
         i \in DOMAIN keys_iter}
        \cup {original_hash(c)}

\* key_hashes of embed_commit, built by iterating the extracted keys
key_hashes(c, keys_iter) ==
    {hash160(to_bytes(keys_iter[i])) : i \in DOMAIN keys_iter}
        \cup {original_hash(c)}

\* faulty variant: the first key iterated is left out of the key set
keyset_skip_first(keys_iter) ==
    {keys_iter[i].key : i \in DOMAIN keys_iter \ {1}}

\* keys: BTreeSet of the points of the extracted keys (line 172)
keyset(keys_iter) == {keys_iter[i].key : i \in DOMAIN keys_iter}

\* the number of replacements the two closures count in found
found(c, script) ==
    Cardinality({i \in DOMAIN script :
        \/ script[i].op = "pk" /\ script[i].key = c.pubkey
        \/ script[i].op = "pk_h" /\ script[i].hash = original_hash(c)})

\* faulty variant: the test on hashes is inverted
contains_no_keys_when_hashes(keys_iter, hashes_iter) ==
    keys_iter = <<>> /\ hashes_iter # <<>>

\* the check of line 163: the script has neither keys nor key hashes
contains_no_keys(keys_iter, hashes_iter) == keys_iter = <<>> /\ hashes_iter = <<>>

\* faulty variant: only the first key iterated is compared
key_not_found_first(c, keys_iter, hashes_iter) ==
    hashes_iter = <<>> /\ c.pubkey # keys_iter[1].key

\* faulty variant: the key is looked up by its hash in key_hashes, which holds
\* original_hash already
key_not_found_by_hash(c, keys_iter, hashes_iter) ==
    hashes_iter = <<>> /\ original_hash(c) \notin key_hashes(c, keys_iter)

\* the check of lines 174-176: no hashes, and the key is not in the key set
key_not_found(c, keys_iter, hashes_iter) ==
    hashes_iter = <<>> /\ c.pubkey \notin keyset(keys_iter)

\* faulty variant: only the first hash iterated is looked up
contains_unknown_hashes_first(c, keys_iter, hashes_iter) ==
    /\ hashes_iter # <<>>
    /\ hashes_iter[1] \notin key_hashes(c, keys_iter)

\* faulty variant: `all` in place of `any`
contains_unknown_hashes_all(c, keys_iter, hashes_iter) ==
    /\ hashes_iter # <<>>
    /\ \A i \in DOMAIN hashes_iter : hashes_iter[i] \notin key_hashes(c, keys_iter)

\* the check of line 177: hashes, one of which is outside key_hashes
contains_unknown_hashes(c, keys_iter, hashes_iter) ==
    /\ hashes_iter # <<>>
    /\ \E i \in DOMAIN hashes_iter : hashes_iter[i] \notin key_hashes(c, keys_iter)

\* faulty variant: the factor is not stored
store_factor_skipped(c, factor) == c

\* line 191: the factor of the key-set commitment is stored in the container
store_factor(c, factor) == [c EXCEPT !.tweaking_factor = factor]

\* faulty variant: the tweaked key is given in uncompressed encoding
key_processor_uncompressed(c, tweaked_pubkey, pubkey) ==
    IF pubkey.key = c.pubkey
    THEN [key |-> tweaked_pubkey, compressed |-> FALSE]
    ELSE pubkey

\* the closure given for keys (lines 202-213)
key_processor(c, tweaked_pubkey, pubkey) ==
    IF pubkey.key = c.pubkey
    THEN [key |-> tweaked_pubkey, compressed |-> TRUE]
    ELSE pubkey

\* the closure given for hashes (lines 214-220)
hash_processor(c, tweaked_hash, hash) ==
    IF hash = original_hash(c) THEN tweaked_hash ELSE hash

\* faulty variant: a commitment that replaced nothing is refused
finish_counted(c, lockscript, count) ==
    IF count = 0 THEN Err(c, "LockscriptKeyNotFound")
    ELSE [ok |-> TRUE, err |-> "", script |-> lockscript, found |-> count,
          container |-> c]

\* Ok(lockscript.into()) of line 230: found is not read
finish(c, lockscript, count) ==
    [ok |-> TRUE, err |-> "", script |-> lockscript, found |-> count,
     container |-> c]

\* the part of embed_commit after the policy checks (lines 181-230)
commit_keyset(c, msg, keys_iter) ==
    LET keyset_container ==
            [pubkey |-> c.pubkey, keyset |-> keyset(keys_iter),
             tag |-> c.tag, tweaking_factor |-> None]
        kc == KeysetCommitment_embed_commit(keyset_container, msg)
        tweaked_pubkey == kc.tweaked_pubkey
        c2 == store_factor(c, kc.tweaking_factor)
        tweaked_hash ==
            hash160(to_bytes([key |-> tweaked_pubkey, compressed |-> TRUE]))
        extracted == extract_pubkey_hash_set(c.script)
        key_proc ==
            [pubkey \in extracted.keys |-> key_processor(c, tweaked_pubkey, pubkey)]
        hash_proc ==
            [hash \in extracted.hashes |-> hash_processor(c, tweaked_hash, hash)]
        rewritten == replace_pubkeys_and_hashes(c.script, key_proc, hash_proc)
    IN IF ~kc.ok THEN Err(c, kc.err)
       ELSE IF ~rewritten.ok THEN Err(c2, "Miniscript")
       ELSE finish(c2, rewritten.script, found(c, c.script))

\* faulty variant: the key is required among the keys of the script whether or
\* not the script has hashes
embed_commit_key_required(c, msg, keys_iter, hashes_iter) ==
    LET extracted == extract_pubkey_hash_set(c.script)
    IN IF ~extracted.ok THEN Err(c, "Miniscript")
       ELSE IF contains_no_keys(keys_iter, hashes_iter)
       THEN Err(c, "LockscriptContainsNoKeys")
       ELSE IF c.pubkey \notin keyset(keys_iter)
       THEN Err(c, "LockscriptKeyNotFound")
       ELSE IF contains_unknown_hashes(c, keys_iter, hashes_iter)
       THEN Err(c, "LockscriptContainsUnknownHashes")
       ELSE commit_keyset(c, msg, keys_iter)

\* LockscriptCommitment::embed_commit; keys_iter and hashes_iter are the orders
\* in which the two extracted sets are iterated
embed_commit(c, msg, keys_iter, hashes_iter) ==
    LET extracted == extract_pubkey_hash_set(c.script)
    IN IF ~extracted.ok THEN Err(c, "Miniscript")
       ELSE IF contains_no_keys(keys_iter, hashes_iter)
       THEN Err(c, "LockscriptContainsNoKeys")
       ELSE IF key_not_found(c, keys_iter, hashes_iter)
       THEN Err(c, "LockscriptKeyNotFound")
       ELSE IF contains_unknown_hashes(c, keys_iter, hashes_iter)
       THEN Err(c, "LockscriptContainsUnknownHashes")
       ELSE commit_keyset(c, msg, keys_iter)

\* EmbedCommitVerify::verify: commit again on a copy of the container and
\* compare the commitments
verify(commitment, c, msg, keys_iter, hashes_iter) ==
    LET r == embed_commit(c, msg, keys_iter, hashes_iter)
    IN IF ~r.ok THEN [ok |-> FALSE, err |-> r.err, value |-> FALSE]
       ELSE [ok |-> TRUE, err |-> "", value |-> r.script = commitment]

\* Proof: the source, of one of the variants of ScriptEncodeData, and the key
ProofSources ==
    {[variant |-> "SinglePubkey", script |-> <<>>, hash |-> 0],
     [variant |-> "Taproot", script |-> <<>>, hash |-> DummyHash]}
    \cup {[variant |-> "LockScript", script |-> script, hash |-> 0] :
            script \in Scripts}

Proofs == [source : ProofSources, pubkey : Keys]

\* faulty variant: the variant of the source is not tested
reconstruct_any_source(proof, supplement) ==
    [ok |-> TRUE, err |-> "",
     container |-> [script |-> proof.source.script, pubkey |-> proof.pubkey,
                    tag |-> supplement, tweaking_factor |-> None]]

\* LockscriptContainer::reconstruct
reconstruct(proof, supplement) ==
    IF proof.source.variant = "LockScript"
    THEN [ok |-> TRUE, err |-> "",
          container |-> [script |-> proof.source.script, pubkey |-> proof.pubkey,
                         tag |-> supplement, tweaking_factor |-> None]]
    ELSE [ok |-> FALSE, err |-> "InvalidProofStructure",
          container |-> [script |-> <<>>, pubkey |-> proof.pubkey,
                         tag |-> supplement, tweaking_factor |-> None]]

-----------------------------------------------------------------------------
(* Characters and numbers of the seal text codec *)

\* A u32 is the sequence of its 8 hexadecimal digits and a u64 that of its 16,
\* most significant first, so that no value is cut to the checker's integers.

HexDigits == <<"0", "1", "2", "3", "4", "5", "6", "7",
               "8", "9", "a", "b", "c", "d", "e", "f">>

UpperChars == <<"A", "B", "C", "D", "E", "F", "G", "H", "I", "J", "K", "L", "M",
                "N", "O", "P", "Q", "R", "S", "T", "U", "V", "W", "X", "Y", "Z">>

LowerChars == <<"a", "b", "c", "d", "e", "f", "g", "h", "i", "j", "k", "l", "m",
                "n", "o", "p", "q", "r", "s", "t", "u", "v", "w", "x", "y", "z">>

\* char::to_lowercase on the characters of the model
LowerChar(ch) ==
    IF \E i \in DOMAIN UpperChars : UpperChars[i] = ch
    THEN LowerChars[CHOOSE i \in DOMAIN UpperChars : UpperChars[i] = ch]
    ELSE ch

\* str::to_lowercase
to_lowercase(s) == [i \in DOMAIN s |-> LowerChar(s[i])]

\* char::to_digit(16); -1 for None
HexVal(ch) ==
    LET l == LowerChar(ch)
    IN IF \E i \in DOMAIN HexDigits : HexDigits[i] = l
       THEN (CHOOSE i \in DOMAIN HexDigits : HexDigits[i] = l) - 1
       ELSE -1

\* char::to_digit(radix); -1 for None
to_digit(ch, radix) == IF HexVal(ch) < radix THEN HexVal(ch) ELSE -1

Zeros(n) == [i \in 1..n |-> 0]

IsZero(num) == \A i \in DOMAIN num : num[i] = 0

\* num * radix + digit in the width of num: checked_mul and checked_add
RECURSIVE MulAddFrom(_, _, _, _)
MulAddFrom(num, radix, carry, i) ==
    IF i = 0 THEN [value |-> num, carry |-> carry]
    ELSE LET v == num[i] * radix + carry
         IN MulAddFrom([num EXCEPT ![i] = v % 16], radix, v \div 16, i - 1)

RECURSIVE ParseDigits(_, _, _)
ParseDigits(digits, radix, acc) ==
    IF digits = <<>> THEN [ok |-> TRUE, value |-> acc]
    ELSE LET d == to_digit(Head(digits), radix)
             m == MulAddFrom(acc, radix, d, Len(acc))
         IN IF d < 0 \/ m.carry > 0 THEN [ok |-> FALSE, value |-> acc]
            ELSE ParseDigits(Tail(digits), radix, m.value)

\* {u32,u64}::from_str_radix: an optional '+', then one digit or more, no
\* overflow of the width
from_str_radix(src, radix, width) ==
    IF src = <<>> THEN [ok |-> FALSE, value |-> Zeros(width)]
    ELSE IF Len(src) = 1 /\ src[1] \in {"+", "-"}
    THEN [ok |-> FALSE, value |-> Zeros(width)]
    ELSE ParseDigits(IF src[1] = "+" THEN Tail(src) ELSE src, radix, Zeros(width))

\* num divided by 10: the quotient and the remainder
RECURSIVE Div10From(_, _, _)
Div10From(num, i, rem) ==
    IF i > Len(num) THEN [quot |-> num, rem |-> rem]
    ELSE LET v == rem * 16 + num[i]
         IN Div10From([num EXCEPT ![i] = v \div 10], i + 1, v % 10)

RECURSIVE DecimalDigits(_)
DecimalDigits(num) ==
    IF IsZero(num) THEN <<>>
    ELSE LET d == Div10From(num, 1, 0)
         IN Append(DecimalDigits(d.quot), HexDigits[d.rem + 1])

\* Display of an unsigned integer
fmt_decimal(num) == IF IsZero(num) THEN <<"0">> ELSE DecimalDigits(num)

RECURSIVE StripZeros(_)
StripZeros(num) ==
    IF Len(num) > 1 /\ num[1] = 0 THEN StripZeros(Tail(num)) ELSE num

\* faulty variant: UpperHex
fmt_upper_hex(num) ==
    LET sig == StripZeros(num)
    IN [i \in DOMAIN sig |->
           IF sig[i] >= 10 THEN UpperChars[sig[i] - 9] ELSE HexDigits[sig[i] + 1]]

\* LowerHex of an unsigned integer: its digits without leading zeros
fmt_lower_hex(num) ==
    LET sig == StripZeros(num) IN [i \in DOMAIN sig |-> HexDigits[sig[i] + 1]]

PadZeros(digits, n) ==
    IF Len(digits) >= n THEN digits
    ELSE [i \in 1..(n - Len(digits)) |-> "0"] \o digits

\* faulty variant: {:010x}, without the prefix
fmt_blinding_bare(blinding) == PadZeros(fmt_lower_hex(blinding), 10)

\* {:#010x}: "0x", then the digits zero-padded to the width of 10 with the prefix
fmt_blinding(blinding) == <<"0", "x">> \o PadZeros(fmt_lower_hex(blinding), 8)

-----------------------------------------------------------------------------
(* Close methods (seals/src/lib.rs) *)

Methods == {"OpretFirst", "TapretFirst"}

\* #[display("opret1st")] and #[display("tapret1st")]
method_to_string(method) ==
    IF method = "OpretFirst"
    THEN <<"o", "p", "r", "e", "t", "1", "s", "t">>
    ELSE <<"t", "a", "p", "r", "e", "t", "1", "s", "t">>

\* the discriminants of #[repr(u8)]
method_u8(method) == IF method = "OpretFirst" THEN 0 ELSE 1

\* faulty variant: the error carries the lowercased text
method_from_str_lowercased(s) ==
    IF to_lowercase(s) = method_to_string("OpretFirst")
    THEN [ok |-> TRUE, method |-> "OpretFirst", text |-> <<>>]
    ELSE IF to_lowercase(s) = method_to_string("TapretFirst")
    THEN [ok |-> TRUE, method |-> "TapretFirst", text |-> <<>>]
    ELSE [ok |-> FALSE, method |-> "OpretFirst", text |-> to_lowercase(s)]

\* TxoutMethod::from_str; the error carries the text as it was given
method_from_str(s) ==
    IF to_lowercase(s) = method_to_string("OpretFirst")
    THEN [ok |-> TRUE, method |-> "OpretFirst", text |-> <<>>]
    ELSE IF to_lowercase(s) = method_to_string("TapretFirst")
    THEN [ok |-> TRUE, method |-> "TapretFirst", text |-> <<>>]
    ELSE [ok |-> FALSE, method |-> "OpretFirst", text |-> s]

-----------------------------------------------------------------------------
(* Revealed seals (seals/src/txout/blind.rs) *)

\* Option<Txid>::None
NoTxid == <<>>

TxidLen == 32

ZeroTxid == [i \in 1..TxidLen |-> 0]

Txids == {ZeroTxid,
          [i \in 1..TxidLen |-> 255],
          [i \in 1..TxidLen |-> (37 * i + 11) % 256]}

Vouts == {Zeros(8),
          <<0, 0, 0, 0, 0, 0, 1, 5>>,
          <<8, 0, 0, 0, 0, 0, 0, 0>>,
          <<15, 15, 15, 15, 15, 15, 15, 15>>}

Blindings == {Zeros(16),
              <<0, 0, 0, 0, 3, 1, 11, 11, 14, 13, 7, 14, 7, 11, 2, 13>>,
              <<0, 0, 0, 0, 0, 0, 0, 1, 0, 0, 0, 0, 0, 0, 0, 0>>,
              [i \in 1..16 |-> 15]}

Seals == [method : Methods, txid : Txids \cup {NoTxid}, vout : Vouts,
          blinding : Blindings]

DumbSeal == [method |-> "OpretFirst", txid |-> NoTxid, vout |-> Zeros(8),
             blinding |-> Zeros(16)]

\* Txid::to_string: the 64 hexadecimal digits of the 32 bytes
txid_to_string(txid) ==
    [i \in 1..(2 * Len(txid)) |->
        IF i % 2 = 1 THEN HexDigits[(txid[(i + 1) \div 2] \div 16) + 1]
        ELSE HexDigits[(txid[i \div 2] % 16) + 1]]

\* Txid::from_str: 64 hexadecimal digits
txid_from_str(s) ==
    IF Len(s) = 2 * TxidLen /\ \A i \in DOMAIN s : HexVal(s[i]) >= 0
    THEN [ok |-> TRUE,
          txid |-> [i \in 1..TxidLen |-> HexVal(s[2 * i - 1]) * 16 + HexVal(s[2 * i])]]
    ELSE [ok |-> FALSE, txid |-> NoTxid]

\* impl Display for RevealedSeal
to_string(s) ==
    method_to_string(s.method) \o <<":">>
        \o (IF s.txid = NoTxid THEN <<"~">> ELSE txid_to_string(s.txid))
        \o <<":">> \o fmt_decimal(s.vout) \o <<"#">> \o fmt_blinding(s.blinding)

\* faulty variant: split(':')
RECURSIVE split_on_colon(_)
split_on_colon(s) ==
    IF \A i \in DOMAIN s : s[i] # ":" THEN <<s>>
    ELSE LET k == CHOOSE i \in DOMAIN s :
                      /\ s[i] = ":"
                      /\ \A j \in 1..(i - 1) : s[j] # ":"
         IN <<SubSeq(s, 1, k - 1)>> \o split_on_colon(SubSeq(s, k + 1, Len(s)))

\* str::split(&[':', '#'][..]), collected
RECURSIVE split(_)
split(s) ==
    IF \A i \in DOMAIN s : s[i] \notin {":", "#"} THEN <<s>>
    ELSE LET k == CHOOSE i \in DOMAIN s :
                      /\ s[i] \in {":", "#"}
                      /\ \A j \in 1..(i - 1) : s[j] \notin {":", "#"}
         IN <<SubSeq(s, 1, k - 1)>> \o split(SubSeq(s, k + 1, Len(s)))

starts_with_0x(s) == Len(s) >= 2 /\ s[1] = "0" /\ s[2] = "x"

\* str::trim_start_matches("0x"): every leading repetition is removed
RECURSIVE trim_start_matches_0x(_)
trim_start_matches_0x(s) ==
    IF starts_with_0x(s) THEN trim_start_matches_0x(SubSeq(s, 3, Len(s))) ELSE s

ParseErr(e) == [ok |-> FALSE, err |-> e, method_text |-> <<>>, seal |-> DumbSeal]

\* faulty variant: the fields are parsed in the order of the text
parse_fields_in_text_order(method, txid, vout, blinding) ==
    LET m == method_from_str(method)
        b == from_str_radix(trim_start_matches_0x(blinding), 16, 16)
        t == txid_from_str(txid)
        v == from_str_radix(vout, 10, 8)
    IN IF ~m.ok THEN [ParseErr("WrongMethod") EXCEPT !.method_text = m.text]
       ELSE IF txid # <<"~">> /\ ~t.ok THEN ParseErr("WrongTxid")
       ELSE IF ~v.ok THEN ParseErr("WrongVout")
       ELSE IF ~b.ok THEN ParseErr("WrongBlinding")
       ELSE [ok |-> TRUE, err |-> "", method_text |-> <<>>,
             seal |-> [method |-> m.method,
                       txid |-> IF txid = <<"~">> THEN NoTxid ELSE t.txid,
                       vout |-> v.value,
                       blinding |-> b.value]]

\* the two Ok(RevealedSeal {..}) arms of from_str: the fields are parsed in the
\* order method, blinding, txid, vout
parse_fields(method, txid, vout, blinding) ==
    LET m == method_from_str(method)
        b == from_str_radix(trim_start_matches_0x(blinding), 16, 16)
        t == txid_from_str(txid)
        v == from_str_radix(vout, 10, 8)
    IN IF ~m.ok THEN [ParseErr("WrongMethod") EXCEPT !.method_text = m.text]
       ELSE IF ~b.ok THEN ParseErr("WrongBlinding")
       ELSE IF txid # <<"~">> /\ ~t.ok THEN ParseErr("WrongTxid")
       ELSE IF ~v.ok THEN ParseErr("WrongVout")
       ELSE [ok |-> TRUE, err |-> "", method_text |-> <<>>,
             seal |-> [method |-> m.method,
                       txid |-> IF txid = <<"~">> THEN NoTxid ELSE t.txid,
                       vout |-> v.value,
                       blinding |-> b.value]]

\* impl FromStr for RevealedSeal
from_str(s) ==
    LET segs == split(s)
        n == Len(segs)
    IN IF segs[1] = <<"~">> \/ segs[1] = <<>> THEN ParseErr("MethodRequired")
       ELSE IF n >= 2 /\ segs[2] = <<>> THEN ParseErr("TxidRequired")
       ELSE IF n = 2 /\ (\E i \in DOMAIN s : s[i] = ":")
       THEN ParseErr("BlindingRequired")
       ELSE IF n = 4 /\ ~starts_with_0x(segs[4]) THEN ParseErr("NonHexBlinding")
       ELSE IF n = 4 THEN parse_fields(segs[1], segs[2], segs[3], segs[4])
       ELSE ParseErr("WrongStructure")

\* faulty variant: to_be_bytes
to_be_bytes(num) ==
    [i \in 1..(Len(num) \div 2) |-> num[2 * i - 1] * 16 + num[2 * i]]

\* u32::to_le_bytes and u64::to_le_bytes
to_le_bytes(num) ==
    [i \in 1..(Len(num) \div 2) |->
        num[Len(num) - 2 * i + 1] * 16 + num[Len(num) - 2 * i + 2]]

\* faulty variant: the blinding is cut to its low 32 bits
blinding_bytes_truncated(blinding) == to_le_bytes(SubSeq(blinding, 9, 16))

\* the bytes of reveal.blinding given to the hash engine (line 338)
blinding_bytes(blinding) == to_le_bytes(blinding)

\* ConcealedSeal::commit: the bytes given to the tagged hash engine, in order
commit_input(reveal) ==
    <<method_u8(reveal.method)>>
        \o (IF reveal.txid = NoTxid THEN ZeroTxid ELSE reveal.txid)
        \o to_le_bytes(reveal.vout)
        \o blinding_bytes(reveal.blinding)

\* ConcealedSeal::commit: the engine is Sha256::from_tag(MIDSTATE_CONCEALED_SEAL);
\* the hash is collision-free, so it is the pair of its tag and its input
commit(reveal) ==
    [tag |-> "MIDSTATE_CONCEALED_SEAL", data |-> commit_input(reveal)]

\* impl Conceal for RevealedSeal
conceal(reveal) == commit(reveal)

\* RevealedSeal::to_concealed_seal
to_concealed_seal(reveal) == conceal(reveal)

\* Option<Outpoint>::None
NoOutpoint == <<>>

\* Outpoint::new(txid, vout)
Outpoint_new(txid, vout) == [txid |-> txid, vout |-> vout]

Outpoints == [txid : Txids, vout : Vouts]

\* impl TryFrom<&RevealedSeal> for Outpoint
Outpoint_try_from(reveal) ==
    IF reveal.txid = NoTxid
    THEN [ok |-> FALSE, err |-> "WitnessVoutError", outpoint |-> NoOutpoint]
    ELSE [ok |-> TRUE, err |-> "",
          outpoint |-> Outpoint_new(reveal.txid, reveal.vout)]

\* TxoSeal::outpoint: self.try_into().ok()
outpoint(reveal) ==
    LET r == Outpoint_try_from(reveal) IN IF r.ok THEN r.outpoint ELSE NoOutpoint

\* TxoSeal::txid_or: self.txid.unwrap_or(default_txid)
txid_or(reveal, default_txid) ==
    IF reveal.txid = NoTxid THEN default_txid ELSE reveal.txid

\* faulty variant: the default replaces a txid that is present
outpoint_or_default(reveal, default_txid) ==
    Outpoint_new(default_txid, reveal.vout)

\* TxoSeal::outpoint_or
outpoint_or(reveal, default_txid) ==
    Outpoint_new(IF reveal.txid = NoTxid THEN default_txid ELSE reveal.txid,
                 reveal.vout)

\* impl From<&Outpoint> for RevealedSeal; blinding is thread_rng().next_u64()
RevealedSeal_from(point, blinding) ==
    [method |-> "TapretFirst", blinding |-> blinding,
     txid |-> point.txid, vout |-> point.vout]

-----------------------------------------------------------------------------
(* Taproot primitives (primitives/src/taproot.rs) *)

\* enum Parity
Parities == {"Even", "Odd"}

\* faulty variant: the left operand is returned
bitxor_left(self, rhs) == self

\* impl BitXor for Parity
bitxor(self, rhs) == IF self = rhs THEN "Even" ELSE "Odd"

\* the length of a Bytes32
HashLen == 32

\* node hashes: they differ in the first byte, in the last byte, or in all
Nodes ==
    {[i \in 1..HashLen |-> 0],
     [i \in 1..HashLen |-> IF i = HashLen THEN 1 ELSE 0],
     [i \in 1..HashLen |-> IF i = 1 THEN 1 ELSE 0],
     [i \in 1..HashLen |-> IF i = 1 THEN 0 ELSE 255],
     [i \in 1..HashLen |-> (37 * i + 11) % 256],
     [i \in 1..HashLen |-> 255]}

\* Ord of a byte array: the order of the first byte that differs
Less(a, b) ==
    \E i \in DOMAIN a :
        /\ a[i] < b[i]
        /\ \A j \in 1..(i - 1) : a[j] = b[j]

\* cmp::min returns its first argument when the two compare equal
cmp_min(v1, v2) == IF Less(v2, v1) THEN v2 ELSE v1

\* faulty variant: the second argument, whatever the order
cmp_max_second(v1, v2) == v2

\* cmp::max returns its second argument when the two compare equal
cmp_max(v1, v2) == IF Less(v2, v1) THEN v1 ELSE v2

\* TapBranchHash::with_nodes; the hash is collision-free, so it is the pair of
\* its tag and its input
with_nodes(node1, node2) ==
    [tag |-> "TapBranch", data |-> cmp_min(node1, node2) \o cmp_max(node1, node2)]

TAPROOT_ANNEX_PREFIX == 80

TAPROOT_LEAF_TAPSCRIPT == 192

\* u8 values
Bytes == 0..255

\* version & 0xFE
MaskLowBit(version) == version - (version % 2)

InvalidLeafVer(version) ==
    [ok |-> FALSE, panic |-> FALSE, kind |-> "InvalidLeafVer", version |-> version]

\* FutureLeafVer::from_consensus
FutureLeafVer_from_consensus(version) ==
    IF version = TAPROOT_LEAF_TAPSCRIPT
    THEN [ok |-> FALSE, panic |-> TRUE, kind |-> "unreachable", version |-> version]
    ELSE IF version = TAPROOT_ANNEX_PREFIX THEN InvalidLeafVer(TAPROOT_ANNEX_PREFIX)
    ELSE IF MaskLowBit(version) # version THEN InvalidLeafVer(version)
    ELSE [ok |-> TRUE, panic |-> FALSE, kind |-> "Future", version |-> version]

\* faulty variant: the annex prefix is not tested
LeafVer_from_consensus_u8_no_annex(version) ==
    IF version = TAPROOT_LEAF_TAPSCRIPT
    THEN [ok |-> TRUE, panic |-> FALSE, kind |-> "TapScript", version |-> 0]
    ELSE IF MaskLowBit(version) # version THEN InvalidLeafVer(version)
    ELSE [ok |-> TRUE, panic |-> FALSE, kind |-> "Future", version |-> version]

\* LeafVer::from_consensus_u8
LeafVer_from_consensus_u8(version) ==
    IF version = TAPROOT_LEAF_TAPSCRIPT
    THEN [ok |-> TRUE, panic |-> FALSE, kind |-> "TapScript", version |-> 0]
    ELSE IF version = TAPROOT_ANNEX_PREFIX THEN InvalidLeafVer(TAPROOT_ANNEX_PREFIX)
    ELSE FutureLeafVer_from_consensus(version)

\* FutureLeafVer::to_consensus
FutureLeafVer_to_consensus(self) == self.version

\* LeafVer::to_consensus_u8
LeafVer_to_consensus_u8(self) ==
    IF self.kind = "TapScript" THEN TAPROOT_LEAF_TAPSCRIPT
    ELSE FutureLeafVer_to_consensus(self)

\* impl StrictDecode for LeafVer: the byte goes through from_consensus_u8
LeafVer_strict_decode(byte) ==
    LET r == LeafVer_from_consensus_u8(byte)
    IN IF r.ok THEN r ELSE [r EXCEPT !.kind = "DataIntegrityError"]

\* #[derive(StrictDecode)] of the tuple struct FutureLeafVer(u8): the byte read
\* is wrapped as it is
FutureLeafVer_strict_decode(byte) ==
    [ok |-> TRUE, panic |-> FALSE, kind |-> "Future", version |-> byte]

\* #[strict_type(dumb = { Self(0x51) })]
FutureLeafVer_strict_dumb ==
    [ok |-> TRUE, panic |-> FALSE, kind |-> "Future", version |-> 81]

\* the confinement of TapMerklePath: Confined<Vec<TapBranchHash>, 0, 128>
MinPathLen == 0

MaxPathLen == 128

\* faulty variant: the upper bound is exclusive
Confined_try_from_exclusive(col) ==
    IF Len(col) >= MinPathLen /\ Len(col) < MaxPathLen
    THEN [ok |-> TRUE, err |-> "", path |-> col]
    ELSE [ok |-> FALSE, err |-> "confinement", path |-> <<>>]

\* Confined::try_from: the collection, when its length is within the bounds
Confined_try_from(col) ==
    IF Len(col) >= MinPathLen /\ Len(col) <= MaxPathLen
    THEN [ok |-> TRUE, err |-> "", path |-> col]
    ELSE [ok |-> FALSE, err |-> "confinement", path |-> <<>>]

\* Confined::try_from_iter: the items are collected in order, then confined
collect(iter) == [i \in 1..Len(iter) |-> iter[i]]

Confined_try_from_iter(iter) == Confined_try_from(collect(iter))

\* TapMerklePath::try_from
try_from(path) == Confined_try_from(path)

\* TapMerklePath::try_from_iter
try_from_iter(iter) == Confined_try_from_iter(iter)

\* Option<TapNodeHash>::None
NoRoot == <<>>

\* x-only keys, as their 32 bytes
InternalKeys ==
    {[i \in 1..HashLen |-> 1], [i \in 1..HashLen |-> (37 * i + 11) % 256]}

MerkleRoots ==
    {[i \in 1..HashLen |-> 0], [i \in 1..HashLen |-> 255]}

\* InternalPk::to_output_key: the key tweaked by the TapTweak hash of the key
\* and of the merkle root when there is one.  The tweak and the addition are
\* abstract: the result is a 32-byte x-only key determined by the hashed bytes.
to_output_key(internal_key, merkle_root) ==
    LET data == internal_key \o merkle_root
        tweak == (data[1] + 3 * data[Len(data)] + Len(data)) % 256
    IN [i \in 1..HashLen |-> (internal_key[i] + tweak * i) % 256]

\* WitnessVer::V1.op_code() as u8: OP_PUSHNUM_1
OP_PUSHNUM_1 == 81

OP_PUSHBYTES_32 == 32

\* the length of a P2TR scriptPubkey
P2trLen == 34

\* ScriptPubkey::with_witness_program_unchecked: the version opcode, the push
\* of the length of the program, the program
with_witness_program_unchecked(op_code, prog) == <<op_code, Len(prog)>> \o prog

\* ScriptPubkey::p2tr_tweaked
p2tr_tweaked(output_key) == with_witness_program_unchecked(OP_PUSHNUM_1, output_key)

\* ScriptPubkey::p2tr
p2tr(internal_key, merkle_root) ==
    p2tr_tweaked(to_output_key(internal_key, merkle_root))

\* ScriptPubkey::p2tr_key_only
p2tr_key_only(internal_key) == p2tr_tweaked(to_output_key(internal_key, NoRoot))

\* ScriptPubkey::p2tr_scripted
p2tr_scripted(internal_key, merkle_root) ==
    p2tr_tweaked(to_output_key(internal_key, merkle_root))

\* faulty variant: the length alone is tested
is_p2tr_length_only(script) == Len(script) = P2trLen

\* ScriptPubkey::is_p2tr: && evaluates its right operand only when the left
\* one holds, so no byte of a shorter script is read
is_p2tr(script) ==
    IF Len(script) # P2trLen THEN FALSE
    ELSE IF script[1] # OP_PUSHNUM_1 THEN FALSE
    ELSE script[2] = OP_PUSHBYTES_32

-----------------------------------------------------------------------------
(* State machine of the lock-script commitment *)

NoCall == [called |-> FALSE, msg |-> 0, ok |-> FALSE, err |-> "",
           script |-> <<>>, found |-> 0, before |-> None]

NoVerification == [done |-> FALSE, msg |-> 0, ok |-> FALSE, err |-> "",
                   value |-> FALSE]

NoParse == [done |-> FALSE, ok |-> FALSE, err |-> "", method_text |-> <<>>,
            seal |-> DumbSeal]

NoHashed == [done |-> FALSE, seal |-> <<>>, other |-> <<>>,
             commitment |-> [tag |-> "", data |-> <<>>],
             concealed |-> [tag |-> "", data |-> <<>>],
             to_concealed |-> [tag |-> "", data |-> <<>>]]

NoArguments == [fn |-> "", input |-> <<>>]

NoReturn == [done |-> FALSE, ok |-> FALSE, value |-> <<>>]

LockIdle ==
    /\ container = [script |-> <<>>, pubkey |-> 1, tag |-> 0,
                    tweaking_factor |-> None]
    /\ last = NoCall
    /\ verification = NoVerification

SealIdle ==
    /\ seal = DumbSeal
    /\ text = <<>>
    /\ displayed = FALSE
    /\ parsed = NoParse

ConcealIdle ==
    /\ other = DumbSeal
    /\ hashed = NoHashed

CallIdle ==
    /\ call = NoArguments
    /\ returned = NoReturn

LockInit ==
    /\ container \in [script : Scripts, pubkey : Keys, tag : Tags,
                      tweaking_factor : {None}]
    /\ last = NoCall
    /\ verification = NoVerification
    /\ SealIdle
    /\ ConcealIdle
    /\ CallIdle

\* embed_commit(&mut container, msg)
EmbedCommit(msg) ==
    /\ LET ex == extract_pubkey_hash_set(container.script)
       IN \E keys_iter \in Enumerations(ex.keys),
             hashes_iter \in Enumerations(ex.hashes) :
            LET r == embed_commit(container, msg, keys_iter, hashes_iter)
            IN /\ container' = r.container
               /\ last' = [called |-> TRUE, msg |-> msg, ok |-> r.ok, err |-> r.err,
                           script |-> r.script, found |-> r.found,
                           before |-> container.tweaking_factor]
               /\ verification' = NoVerification
    /\ UNCHANGED <<sealvars, concealvars, callvars>>

\* commitment.verify(&container, msg) for the commitment last returned; the
\* container is the one committed to, with or without the stored factor
Verify(msg) ==
    /\ last.called /\ last.ok
    /\ LET ex == extract_pubkey_hash_set(container.script)
       IN \E keys_iter \in Enumerations(ex.keys),
             hashes_iter \in Enumerations(ex.hashes),
             c \in {container, [container EXCEPT !.tweaking_factor = None]} :
            LET v == verify(last.script, c, msg, keys_iter, hashes_iter)
            IN verification' = [done |-> TRUE, msg |-> msg, ok |-> v.ok,
                                err |-> v.err, value |-> v.value]
    /\ UNCHANGED <<container, last, sealvars, concealvars, callvars>>

LockNext ==
    \/ \E msg \in Msgs : EmbedCommit(msg)
    \/ \E msg \in Msgs : Verify(msg)

Spec == LockInit /\ [][LockNext]_vars

\* A container that is used again: tweaking_factor is a public field, which
\* holds the factor of an earlier commitment when the caller has not reset it
PriorFactors == {None, Hmac(1, 0, 0)}

AtomicInit ==
    /\ container \in [script : Scripts, pubkey : Keys, tag : Tags,
                      tweaking_factor : PriorFactors]
    /\ last = NoCall
    /\ verification = NoVerification
    /\ SealIdle
    /\ ConcealIdle
    /\ CallIdle

AtomicNext == \E msg \in Msgs : EmbedCommit(msg)

AtomicSpec == AtomicInit /\ [][AtomicNext]_vars

-----------------------------------------------------------------------------
(* State machine of the seal text codec *)

SealInit ==
    /\ seal \in Seals
    /\ text = <<>>
    /\ displayed = FALSE
    /\ parsed = NoParse
    /\ LockIdle
    /\ ConcealIdle
    /\ CallIdle

\* seal.to_string()
Display ==
    /\ text' = to_string(seal)
    /\ displayed' = TRUE
    /\ parsed' = NoParse
    /\ UNCHANGED <<seal, lockvars, concealvars, callvars>>

\* RevealedSeal::from_str(&text)
Parse ==
    /\ displayed
    /\ parsed' = [done |-> TRUE] @@ from_str(text)
    /\ UNCHANGED <<seal, text, displayed, lockvars, concealvars, callvars>>

SealNext == Display \/ Parse

SealSpec == SealInit /\ [][SealNext]_vars

-----------------------------------------------------------------------------
(* State machine of the seal parser on given strings *)

\* the segments the strings are made of: well-formed ones and malformed ones
MethodTexts ==
    {method_to_string("OpretFirst"),
     <<"T", "a", "p", "R", "E", "T", "1", "s", "t">>,
     <<"~">>, <<>>, <<"o", "p", "r", "e", "t">>}

TxidTexts ==
    {<<"~">>, <<>>, <<"z", "z">>,
     txid_to_string([i \in 1..TxidLen |-> (37 * i + 11) % 256])}

VoutTexts ==
    {<<"0">>, <<"2", "1">>, <<"+", "2", "1">>, <<"a">>, <<>>,
     <<"4", "2", "9", "4", "9", "6", "7", "2", "9", "5">>,
     <<"4", "2", "9", "4", "9", "6", "7", "2", "9", "6">>}

BlindingTexts ==
    {<<"0", "x", "1">>,
     <<"0", "x", "3", "1", "b", "b", "e", "d", "7", "e", "7", "b", "2", "d">>,
     <<"0", "x", "F", "f">>,
     <<"0", "x", "0", "x", "1">>,
     <<"0", "x", "+", "1">>,
     <<"0", "x">>,
     <<"0", "x", "g">>,
     <<"1">>,
     <<"0", "x", "0">> \o [i \in 1..16 |-> "f"],
     <<"0", "x", "1">> \o [i \in 1..16 |-> "0"]}

Separators == {":", "#"}

\* strings of one to five segments
Texts ==
    MethodTexts
    \cup {m \o <<a>> \o t : m \in MethodTexts, a \in Separators, t \in TxidTexts}
    \cup {m \o <<a>> \o t \o <<b>> \o v :
            m \in MethodTexts, a \in Separators, t \in TxidTexts,
            b \in Separators, v \in VoutTexts}
    \cup {m \o <<a>> \o t \o <<b>> \o v \o <<c>> \o x :
            m \in MethodTexts, a \in Separators, t \in TxidTexts,
            b \in Separators, v \in VoutTexts, c \in Separators,
            x \in BlindingTexts}
    \cup {m \o <<":">> \o t \o <<":", "0", "#", "0", "x", "1">> \o <<c>> \o x :
            m \in MethodTexts, t \in TxidTexts, c \in Separators,
            x \in {<<>>, <<"1">>}}

ParseInit ==
    /\ seal = DumbSeal
    /\ text \in Texts
    /\ displayed = FALSE
    /\ parsed = NoParse
    /\ LockIdle
    /\ ConcealIdle
    /\ CallIdle

\* RevealedSeal::from_str(&text) on a string that no seal was rendered to
ParseGiven ==
    /\ ~displayed
    /\ ~parsed.done
    /\ parsed' = [done |-> TRUE] @@ from_str(text)
    /\ UNCHANGED <<seal, text, displayed, lockvars, concealvars, callvars>>

ParseNext == ParseGiven

ParseSpec == ParseInit /\ [][ParseNext]_vars

-----------------------------------------------------------------------------
(* State machine of seal concealment *)

ConcealInit ==
    /\ seal \in Seals
    /\ other \in Seals
    /\ hashed = NoHashed
    /\ text = <<>>
    /\ displayed = FALSE
    /\ parsed = NoParse
    /\ LockIdle
    /\ CallIdle

\* ConcealedSeal::commit(&seal) and ConcealedSeal::commit(&other)
Conceal ==
    /\ ~hashed.done
    /\ hashed' = [done |-> TRUE, seal |-> commit_input(seal),
                  other |-> commit_input(other),
                  commitment |-> commit(seal),
                  concealed |-> conceal(seal),
                  to_concealed |-> to_concealed_seal(seal)]
    /\ UNCHANGED <<seal, other, text, displayed, parsed, lockvars, callvars>>

ConcealNext == Conceal

ConcealSpec == ConcealInit /\ [][ConcealNext]_vars

-----------------------------------------------------------------------------
(* State machine of the calls of pure functions *)

\* name with each set of its letters in upper case
CaseVariants(name) ==
    {[i \in DOMAIN name |->
         IF i \in S /\ (\E j \in DOMAIN LowerChars : LowerChars[j] = name[i])
         THEN UpperChars[CHOOSE j \in DOMAIN LowerChars : LowerChars[j] = name[i]]
         ELSE name[i]] : S \in SUBSET DOMAIN name}

\* the strings given to TxoutMethod::from_str: the names in every case, and
\* strings that are no names
MethodNameTexts ==
    CaseVariants(method_to_string("OpretFirst"))
    \cup CaseVariants(method_to_string("TapretFirst"))
    \cup MethodTexts
    \cup {<<"T", "A", "P", "R", "E", "T">>,
          <<"O", "p", "r", "e", "t", "1", "s", "t", " ">>,
          <<" ", "o", "p", "r", "e", "t", "1", "s", "t">>,
          <<"o", "p", "r", "e", "t", "2", "n", "d">>,
          <<"t", "a", "p", "r", "e", "t", "1", "s", "t", "1">>,
          <<"0", "p", "r", "e", "t", "1", "s", "t">>}

\* a path of n branch hashes, each different from the others
Path(n, node) ==
    [i \in 1..n |-> with_nodes(node, [j \in 1..HashLen |-> i])]

PathLens ==
    {MinPathLen, 1, 2, MaxPathLen - 1, MaxPathLen, MaxPathLen + 1, MaxPathLen + 2}

Paths ==
    {Path(n, node) : n \in PathLens,
                     node \in {[i \in 1..HashLen |-> 0], [i \in 1..HashLen |-> 255]}}

\* scripts given to is_p2tr: of every length around 34, with the two leading
\* bytes right or wrong
ScriptPubkeys ==
    {[i \in 1..n |-> IF i = 1 THEN a ELSE IF i = 2 THEN b ELSE 7] :
        n \in {0, 1, 2, P2trLen - 1, P2trLen, P2trLen + 1},
        a \in {OP_PUSHNUM_1, 0}, b \in {OP_PUSHBYTES_32, OP_PUSHNUM_1}}

Calls ==
    {[fn |-> "TxoutMethod::from_str", input |-> <<t>>] : t \in MethodNameTexts}
    \cup {[fn |-> "LockscriptContainer::reconstruct", input |-> <<proof, tag>>] :
            proof \in Proofs, tag \in Tags}
    \cup {[fn |-> "ScriptPubkey::p2tr", input |-> <<k, r>>] :
            k \in InternalKeys, r \in MerkleRoots \cup {NoRoot}}
    \cup {[fn |-> "ScriptPubkey::p2tr_key_only", input |-> <<k>>] : k \in InternalKeys}
    \cup {[fn |-> "ScriptPubkey::p2tr_scripted", input |-> <<k, r>>] :
            k \in InternalKeys, r \in MerkleRoots}
    \cup {[fn |-> "ScriptPubkey::p2tr_tweaked", input |-> <<k>>] : k \in InternalKeys}
    \cup {[fn |-> "ScriptPubkey::is_p2tr", input |-> <<script>>] :
            script \in ScriptPubkeys}
    \cup {[fn |-> "TxoutMethod::to_string", input |-> <<m>>] : m \in Methods}
    \cup {[fn |-> "RevealedSeal::outpoint", input |-> <<reveal, default_txid>>] :
            reveal \in Seals, default_txid \in Txids}
    \cup {[fn |-> "RevealedSeal::from", input |-> <<point>>] : point \in Outpoints}
    \cup {[fn |-> "Parity::bitxor", input |-> <<a, b, c>>] :
            a \in Parities, b \in Parities, c \in Parities}
    \cup {[fn |-> "TapBranchHash::with_nodes", input |-> <<a, b>>] :
            a \in Nodes, b \in Nodes}
    \cup {[fn |-> "LeafVer::from_consensus_u8", input |-> <<v>>] : v \in Bytes}
    \cup {[fn |-> "LeafVer::strict_decode", input |-> <<v>>] : v \in Bytes}
    \cup {[fn |-> "FutureLeafVer::strict_decode", input |-> <<v>>] : v \in Bytes}
    \cup {[fn |-> "FutureLeafVer::strict_dumb", input |-> <<>>]}
    \cup {[fn |-> "TapMerklePath::try_from", input |-> <<path>>] : path \in Paths}
    \cup {[fn |-> "TapMerklePath::try_from_iter", input |-> <<path>>] :
            path \in Paths}

CallInit ==
    /\ call \in Calls
    /\ returned = NoReturn
    /\ LockIdle
    /\ SealIdle
    /\ ConcealIdle

Calling(fn) == call.fn = fn /\ ~returned.done

Return(ok, value) ==
    /\ returned' = [done |-> TRUE, ok |-> ok, value |-> value]
    /\ UNCHANGED <<call, lockvars, sealvars, concealvars>>

\* TxoutMethod::from_str(text)
MethodFromStr ==
    /\ Calling("TxoutMethod::from_str")
    /\ LET r == method_from_str(call.input[1]) IN Return(r.ok, r)

\* method.to_string(), and TxoutMethod::from_str of the string
MethodToString ==
    /\ Calling("TxoutMethod::to_string")
    /\ LET str == method_to_string(call.input[1])
       IN Return(TRUE, [text |-> str, parsed |-> method_from_str(str)])

\* (a ^ b) ^ c and a ^ (b ^ c), with the values they are made of
BitXor ==
    /\ Calling("Parity::bitxor")
    /\ LET a == call.input[1]
           b == call.input[2]
           c == call.input[3]
       IN Return(TRUE, [ab |-> bitxor(a, b), ba |-> bitxor(b, a),
                        ab_c |-> bitxor(bitxor(a, b), c),
                        a_bc |-> bitxor(a, bitxor(b, c)),
                        a_even |-> bitxor(a, "Even"),
                        aa |-> bitxor(a, a)])

\* TapBranchHash::with_nodes(a, b) and TapBranchHash::with_nodes(b, a)
WithNodes ==
    /\ Calling("TapBranchHash::with_nodes")
    /\ Return(TRUE, [ab |-> with_nodes(call.input[1], call.input[2]),
                     ba |-> with_nodes(call.input[2], call.input[1])])

\* LeafVer::from_consensus_u8(v), and to_consensus_u8 of the value when Ok
FromConsensusU8 ==
    /\ Calling("LeafVer::from_consensus_u8")
    /\ LET r == LeafVer_from_consensus_u8(call.input[1])
       IN Return(r.ok, [ver |-> r,
                        consensus |-> IF r.ok THEN LeafVer_to_consensus_u8(r) ELSE -1])

\* LeafVer::strict_decode of one byte
StrictDecodeLeafVer ==
    /\ Calling("LeafVer::strict_decode")
    /\ LET r == LeafVer_strict_decode(call.input[1]) IN Return(r.ok, [ver |-> r])

\* FutureLeafVer::strict_decode of one byte
StrictDecodeFutureLeafVer ==
    /\ Calling("FutureLeafVer::strict_decode")
    /\ LET r == FutureLeafVer_strict_decode(call.input[1]) IN Return(r.ok, [ver |-> r])

\* FutureLeafVer::strict_dumb()
StrictDumbFutureLeafVer ==
    /\ Calling("FutureLeafVer::strict_dumb")
    /\ Return(TRUE, [ver |-> FutureLeafVer_strict_dumb])

\* TapMerklePath::try_from(path)
TryFrom ==
    /\ Calling("TapMerklePath::try_from")
    /\ LET r == try_from(call.input[1]) IN Return(r.ok, r)

\* TapMerklePath::try_from_iter(path)
TryFromIter ==
    /\ Calling("TapMerklePath::try_from_iter")
    /\ LET r == try_from_iter(call.input[1]) IN Return(r.ok, r)

\* ScriptPubkey::p2tr(internal_key, merkle_root), and is_p2tr of the script
P2tr ==
    /\ Calling("ScriptPubkey::p2tr")
    /\ LET script == p2tr(call.input[1], call.input[2])
       IN Return(TRUE, [script |-> script, is_p2tr |-> is_p2tr(script)])

\* ScriptPubkey::p2tr_key_only(internal_key), and is_p2tr of the script
P2trKeyOnly ==
    /\ Calling("ScriptPubkey::p2tr_key_only")
    /\ LET script == p2tr_key_only(call.input[1])
       IN Return(TRUE, [script |-> script, is_p2tr |-> is_p2tr(script)])

\* ScriptPubkey::p2tr_scripted(internal_key, merkle_root), and is_p2tr of the
\* script
P2trScripted ==
    /\ Calling("ScriptPubkey::p2tr_scripted")
    /\ LET script == p2tr_scripted(call.input[1], call.input[2])
       IN Return(TRUE, [script |-> script, is_p2tr |-> is_p2tr(script)])

\* ScriptPubkey::p2tr_tweaked(output_key), and is_p2tr of the script
P2trTweaked ==
    /\ Calling("ScriptPubkey::p2tr_tweaked")
    /\ LET script == p2tr_tweaked(call.input[1])
       IN Return(TRUE, [script |-> script, is_p2tr |-> is_p2tr(script)])

\* script.is_p2tr()
IsP2tr ==
    /\ Calling("ScriptPubkey::is_p2tr")
    /\ Return(TRUE, [script |-> call.input[1], is_p2tr |-> is_p2tr(call.input[1])])

\* LockscriptContainer::reconstruct(&proof, &supplement, &None)
Reconstruct ==
    /\ Calling("LockscriptContainer::reconstruct")
    /\ LET r == reconstruct(call.input[1], call.input[2]) IN Return(r.ok, r)

\* Outpoint::try_from(&reveal), reveal.outpoint(), reveal.txid_or(default_txid)
\* and reveal.outpoint_or(default_txid)
SealOutpoint ==
    /\ Calling("RevealedSeal::outpoint")
    /\ LET reveal == call.input[1]
           default_txid == call.input[2]
       IN Return(TRUE, [try_from |-> Outpoint_try_from(reveal),
                        outpoint |-> outpoint(reveal),
                        txid_or |-> txid_or(reveal, default_txid),
                        outpoint_or |-> outpoint_or(reveal, default_txid)])

\* RevealedSeal::from(outpoint) with the blinding the generator gives, and
\* Outpoint::try_from of the seal
SealFromOutpoint ==
    /\ Calling("RevealedSeal::from")
    /\ \E blinding \in Blindings :
          LET reveal == RevealedSeal_from(call.input[1], blinding)
          IN Return(TRUE, [seal |-> reveal, back |-> Outpoint_try_from(reveal)])

CallNext ==
    \/ SealOutpoint
    \/ SealFromOutpoint
    \/ Reconstruct
    \/ P2tr
    \/ P2trKeyOnly
    \/ P2trScripted
    \/ P2trTweaked
    \/ IsP2tr
    \/ MethodFromStr
    \/ MethodToString
    \/ BitXor
    \/ WithNodes
    \/ FromConsensusU8
    \/ StrictDecodeLeafVer
    \/ StrictDecodeFutureLeafVer
    \/ StrictDumbFutureLeafVer
    \/ TryFrom
    \/ TryFromIter

CallSpec == CallInit /\ [][CallNext]_vars

-----------------------------------------------------------------------------
(* Properties of the lock-script commitment *)

\* what the script refers to, read off its fragments
PkOf(script) == {i \in DOMAIN script : script[i].op = "pk"}

PkhOf(script) == {i \in DOMAIN script : script[i].op = "pk_h"}

\* the rewriting of the script does not fail
Translatable(script) ==
    \A i \in DOMAIN script : script[i].op # "untranslatable"

\* container.pubkey occurs in the script as a key or as the hash of its
\* compressed encoding
Occurs(c) ==
    \/ \E i \in PkOf(c.script) : c.script[i].key = c.pubkey
    \/ \E i \in PkhOf(c.script) :
           c.script[i].hash =
               hash160(to_bytes([key |-> c.pubkey, compressed |-> TRUE]))

\* C1: a commitment verifies against the container and the message it was made
\* for: verify returns Ok(true).
C1_RoundTrip ==
    (verification.done /\ verification.msg = last.msg)
        => (verification.ok /\ verification.value)

C1_Witness ==
    /\ verification.done /\ verification.msg = last.msg
    /\ verification.value
    /\ Cardinality(PkOf(container.script)) = 2
    /\ last.found = 1

\* C2: a commitment does not verify against the same container and a different
\* message, whatever the accepted script.
C2_RejectsOtherMessage ==
    (verification.done /\ verification.msg # last.msg)
        => ~(verification.ok /\ verification.value)

\* C3: a script that parses and refers to no key and no key hash is refused
\* with LockscriptContainsNoKeys.
C3_NoKeys ==
    (/\ last.called
     /\ parses(container.script)
     /\ PkOf(container.script) = {} /\ PkhOf(container.script) = {})
        => (~last.ok /\ last.err = "LockscriptContainsNoKeys")

C3_Witness ==
    /\ last.called /\ last.err = "LockscriptContainsNoKeys"
    /\ Len(container.script) = 2
    /\ \E i \in DOMAIN container.script : container.script[i].op = "hash160"

\* C4 as stated: a script with keys or hashes in which container.pubkey occurs
\* neither as a key nor as a hash is refused with LockscriptKeyNotFound.
C4_KeyNotFoundAlsoWithHashes ==
    (/\ last.called
     /\ parses(container.script)
     /\ PkOf(container.script) \cup PkhOf(container.script) # {}
     /\ ~Occurs(container))
        => (~last.ok /\ last.err = "LockscriptKeyNotFound")

\* C4 amended: a script that refers to keys but to no key hash, and not to
\* container.pubkey, is refused with LockscriptKeyNotFound.
C4_KeyNotFound ==
    (/\ last.called
     /\ parses(container.script)
     /\ PkOf(container.script) # {} /\ PkhOf(container.script) = {}
     /\ \A i \in PkOf(container.script) : container.script[i].key # container.pubkey)
        => (~last.ok /\ last.err = "LockscriptKeyNotFound")

C4_Witness ==
    /\ last.called /\ last.err = "LockscriptKeyNotFound"
    /\ Cardinality(PkOf(container.script)) = 2
    /\ container.script[1].key # container.script[2].key

\* C5: a script with a pk_h hash that is the hash of no key of the script (as
\* the script encodes it) and not the hash of the compressed container.pubkey
\* is refused with LockscriptContainsUnknownHashes.
C5_UnknownHash ==
    (/\ last.called
     /\ parses(container.script)
     /\ \E i \in PkhOf(container.script) :
            /\ \A j \in PkOf(container.script) :
                   container.script[i].hash #
                       hash160(to_bytes([key |-> container.script[j].key,
                                         compressed |-> container.script[j].compressed]))
            /\ container.script[i].hash #
                   hash160(to_bytes([key |-> container.pubkey, compressed |-> TRUE])))
        => (~last.ok /\ last.err = "LockscriptContainsUnknownHashes")

C5_Witness ==
    /\ last.called /\ last.err = "LockscriptContainsUnknownHashes"
    /\ \E i \in PkOf(container.script) : container.script[i].key = container.pubkey
    /\ \E i \in PkhOf(container.script) : container.script[i].hash # DummyHash

\* C6: a second embed_commit with the same message on the same script, key and
\* tag returns what the first returned and stores the same factor, whatever
\* the orders in which the two calls iterate the extracted sets.
C6_Deterministic ==
    [][(last.called /\ last'.called /\ last'.msg = last.msg)
          => /\ last'.ok = last.ok
             /\ last'.err = last.err
             /\ last'.script = last.script
             /\ container'.tweaking_factor = container.tweaking_factor]_vars

C6_Witness ==
    /\ last.called /\ last.ok
    /\ last.before # None /\ last.before = container.tweaking_factor
    /\ Cardinality(PkOf(container.script)) = 2

\* C7 as stated: once populated, tweaking_factor never changes.
C7_WriteOnce ==
    [][container.tweaking_factor # None
          => container'.tweaking_factor = container.tweaking_factor]_vars

\* C7 amended: once populated, tweaking_factor is never empty again, and a
\* call with the message of the preceding call leaves it as it is.
C7_PopulatedStays ==
    [][container.tweaking_factor # None
          => /\ container'.tweaking_factor # None
             /\ (last'.msg = last.msg
                    => container'.tweaking_factor = container.tweaking_factor)]_vars

C7_Witness ==
    /\ last.called /\ last.ok
    /\ last.before # None
    /\ container.tweaking_factor # None
    /\ container.tweaking_factor # last.before

\* C8: after a successful embed_commit the container holds the factor of the
\* LNPBP-1 key-set commitment over container.pubkey, the keys of the script,
\* the tag and the message.
C8_FactorStored ==
    (last.called /\ last.ok)
        => /\ container.tweaking_factor # None
           /\ container.tweaking_factor =
                  KeysetCommitment_embed_commit(
                      [pubkey |-> container.pubkey,
                       keyset |-> {container.script[i].key : i \in PkOf(container.script)},
                       tag |-> container.tag,
                       tweaking_factor |-> None],
                      last.msg).tweaking_factor

C8_Witness ==
    /\ last.called /\ last.ok
    /\ container.tweaking_factor # None
    /\ \E i \in PkOf(container.script) : container.script[i].key # container.pubkey
    /\ container.tag = 1 /\ last.msg = 1

-----------------------------------------------------------------------------
(* Properties of the blinded seal *)

\* C9: parsing the text a seal displays as returns Ok with that seal.
C9_TextRoundTrip ==
    (displayed /\ parsed.done) => (parsed.ok /\ parsed.seal = seal)

C9_Witness ==
    /\ displayed /\ parsed.done /\ parsed.ok
    /\ seal.txid \notin {NoTxid, ZeroTxid}
    /\ seal.vout = [i \in 1..8 |-> 15]
    /\ Len(text) > 100

\* the two seals differ only in that one has no txid and the other the txid of
\* 32 zero bytes
DifferByAbsentZeroTxid(a, b) ==
    /\ a.method = b.method /\ a.vout = b.vout /\ a.blinding = b.blinding
    /\ {a.txid, b.txid} = {NoTxid, ZeroTxid}

\* C10 as stated: two seals that differ in a field give the tagged hash
\* different bytes.
C10_FieldSensitive ==
    (hashed.done /\ seal # other) => hashed.seal # hashed.other

\* C10 amended: two seals that differ in a field give the tagged hash different
\* bytes, unless they differ only in the txid being absent in one and 32 zero
\* bytes in the other.
C10_FieldSensitiveButZeroTxid ==
    (hashed.done /\ seal # other /\ ~DifferByAbsentZeroTxid(seal, other))
        => hashed.seal # hashed.other

C10_Witness ==
    /\ hashed.done
    /\ seal.txid = NoTxid /\ other.txid \notin {NoTxid, ZeroTxid}
    /\ seal.method = other.method /\ seal.vout = other.vout
    /\ seal.blinding = other.blinding
    /\ hashed.seal # hashed.other

-----------------------------------------------------------------------------
(* Properties of seal concealment: the hashed bytes *)

\* C11: ConcealedSeal::commit hashes, under the tag of the concealed seal, one
\* method byte (0 for OpretFirst, 1 for TapretFirst), the 32 bytes of the txid
\* (zeros when it is absent), the vout as 4 little-endian bytes and the blinding
\* as 8 little-endian bytes, in this order; conceal() and to_concealed_seal()
\* return the value commit returns.
C11_HashedLayout ==
    hashed.done =>
        LET d == hashed.commitment.data
        IN /\ hashed.commitment.tag = "MIDSTATE_CONCEALED_SEAL"
           /\ Len(d) = 1 + 32 + 4 + 8
           /\ d[1] = (IF seal.method = "OpretFirst" THEN 0 ELSE 1)
           /\ \A i \in 1..32 :
                d[1 + i] = (IF seal.txid = NoTxid THEN 0 ELSE seal.txid[i])
           /\ \A i \in 1..4 :
                d[33 + i] = seal.vout[9 - 2 * i] * 16 + seal.vout[10 - 2 * i]
           /\ \A i \in 1..8 :
                d[37 + i] = seal.blinding[17 - 2 * i] * 16 + seal.blinding[18 - 2 * i]
           /\ hashed.concealed = hashed.commitment
           /\ hashed.to_concealed = hashed.commitment

\* a tapret seal without txid, vout 21 and the blinding 0x31bbed7e7b2d was hashed
C11_Witness ==
    /\ hashed.done
    /\ seal.method = "TapretFirst"
    /\ seal.txid = NoTxid
    /\ seal.vout = <<0, 0, 0, 0, 0, 0, 1, 5>>
    /\ seal.blinding = <<0, 0, 0, 0, 3, 1, 11, 11, 14, 13, 7, 14, 7, 11, 2, 13>>
    /\ hashed.commitment.data[34] = 21
    /\ hashed.commitment.data[38] = 45

-----------------------------------------------------------------------------
(* Properties of the seal text codec: the rendered blinding *)

\* the blinding as the text renders it: what follows '#'
RenderedBlinding == split(text)[4]

IsLowerHex(ch) == \E i \in DOMAIN HexDigits : HexDigits[i] = ch

\* the u64 a string of at most 16 hexadecimal digits denotes
HexValue(digits) ==
    [i \in 1..16 |->
        IF i <= 16 - Len(digits) THEN 0 ELSE HexVal(digits[i - (16 - Len(digits))])]

\* C12 as stated: in the text of a RevealedSeal the blinding is exactly 10
\* characters, '0x' and exactly 8 zero-padded lowercase hexadecimal digits, for
\* every u64 blinding.
C12_TenCharacters ==
    displayed =>
        /\ Len(RenderedBlinding) = 10
        /\ starts_with_0x(RenderedBlinding)
        /\ \A i \in 3..Len(RenderedBlinding) : IsLowerHex(RenderedBlinding[i])

\* C12, amended: the blinding is rendered as '0x' followed by the lowercase
\* hexadecimal digits of its value, zero-padded to 8 digits and never cut: 8
\* digits for a value below 2^32, and otherwise the 9 to 16 digits of the value
\* without leading zero, so the rendering has 10 to 18 characters.
C12_AtLeastTenCharacters ==
    displayed =>
        LET digits == SubSeq(RenderedBlinding, 3, Len(RenderedBlinding))
        IN /\ starts_with_0x(RenderedBlinding)
           /\ Len(digits) \in 8..16
           /\ \A i \in DOMAIN digits : IsLowerHex(digits[i])
           /\ HexValue(digits) = seal.blinding
           /\ Len(digits) > 8 => digits[1] # "0"
           /\ Len(RenderedBlinding) = 10 <=> \A i \in 1..8 : seal.blinding[i] = 0

\* the blinding 2^32 was rendered, in 11 characters
C12_Witness ==
    /\ displayed
    /\ seal.blinding = <<0, 0, 0, 0, 0, 0, 0, 1, 0, 0, 0, 0, 0, 0, 0, 0>>
    /\ Len(RenderedBlinding) = 11

-----------------------------------------------------------------------------
(* Properties of the seal parser *)

SepPositions(s) == {i \in DOMAIN s : s[i] \in {":", "#"}}

NumSegments(s) == Cardinality(SepPositions(s)) + 1

\* the position of the k-th separator; 0 before the first segment and
\* Len(s) + 1 after the last
NthSep(s, k) ==
    IF k = 0 THEN 0
    ELSE IF k > Cardinality(SepPositions(s)) THEN Len(s) + 1
    ELSE CHOOSE p \in SepPositions(s) :
             Cardinality({q \in SepPositions(s) : q < p}) = k - 1

Segment(s, k) == SubSeq(s, NthSep(s, k - 1) + 1, NthSep(s, k) - 1)

\* s is name up to the case of its letters
SpellsIgnoringCase(s, name) ==
    /\ Len(s) = Len(name)
    /\ \A i \in DOMAIN s :
          \/ s[i] = name[i]
          \/ \E j \in DOMAIN LowerChars :
                LowerChars[j] = name[i] /\ UpperChars[j] = s[i]

IsMethodText(s) ==
    \/ SpellsIgnoringCase(s, <<"o", "p", "r", "e", "t", "1", "s", "t">>)
    \/ SpellsIgnoringCase(s, <<"t", "a", "p", "r", "e", "t", "1", "s", "t">>)

IsDecimal(ch) == ch \in {"0", "1", "2", "3", "4", "5", "6", "7", "8", "9"}

IsHex(ch) ==
    IsDecimal(ch) \/ ch \in {"a", "b", "c", "d", "e", "f", "A", "B", "C", "D", "E", "F"}

\* METHOD ':' (TXID | '~') ':' VOUT '#' '0x' HEX16
InGrammar(s) ==
    /\ NumSegments(s) = 4
    /\ s[NthSep(s, 1)] = ":" /\ s[NthSep(s, 2)] = ":" /\ s[NthSep(s, 3)] = "#"
    /\ IsMethodText(Segment(s, 1))
    /\ \/ Segment(s, 2) = <<"~">>
       \/ /\ Len(Segment(s, 2)) = 64
          /\ \A i \in 1..64 : IsHex(Segment(s, 2)[i])
    /\ LET v == Segment(s, 3)
       IN /\ v # <<>>
          /\ \A i \in DOMAIN v : IsDecimal(v[i])
          /\ from_str_radix(v, 10, 8).ok
    /\ LET b == Segment(s, 4)
       IN /\ Len(b) \in 3..18
          /\ b[1] = "0" /\ b[2] = "x"
          /\ \A i \in 3..Len(b) : IsHex(b[i])

\* C13: RevealedSeal::from_str returns Ok only for the strings of the grammar
\* METHOD ':' (TXID | '~') ':' VOUT '#' '0x' HEX16, with the separators in this
\* order, one '0x' prefix, 1 to 16 hexadecimal digits without sign and a
\* decimal u32 vout; every other string gives an error.
C13_OnlyGrammar ==
    (parsed.done /\ ~displayed /\ parsed.ok) => InGrammar(text)

\* C14: parsing always returns, and malformed structure is classified by the
\* segments between ':' and '#': a first segment that is empty or '~' gives
\* MethodRequired; otherwise an empty second segment gives TxidRequired;
\* otherwise two segments in a string with ':' give BlindingRequired; otherwise
\* four segments whose fourth does not start with '0x' give NonHexBlinding;
\* every other number of segments than four gives WrongStructure.
C14_Classification ==
    (parsed.done /\ ~displayed) =>
        LET n == NumSegments(text)
        IN IF Segment(text, 1) \in {<<>>, <<"~">>}
           THEN ~parsed.ok /\ parsed.err = "MethodRequired"
           ELSE IF n >= 2 /\ Segment(text, 2) = <<>>
           THEN ~parsed.ok /\ parsed.err = "TxidRequired"
           ELSE IF n = 2 /\ (\E i \in DOMAIN text : text[i] = ":")
           THEN ~parsed.ok /\ parsed.err = "BlindingRequired"
           ELSE IF n = 4 /\ (\/ Len(Segment(text, 4)) < 2
                             \/ Segment(text, 4)[1] # "0"
                             \/ Segment(text, 4)[2] # "x")
           THEN ~parsed.ok /\ parsed.err = "NonHexBlinding"
           ELSE IF n # 4
           THEN ~parsed.ok /\ parsed.err = "WrongStructure"
           ELSE \/ parsed.ok
                \/ parsed.err \in {"WrongMethod", "WrongBlinding", "WrongTxid",
                                   "WrongVout"}

\* a string of two segments separated by '#' was parsed: WrongStructure, where
\* the same segments separated by ':' give BlindingRequired
C14_Witness ==
    /\ parsed.done /\ ~displayed
    /\ NumSegments(text) = 2
    /\ text[NthSep(text, 1)] = "#"
    /\ Segment(text, 1) = <<"o", "p", "r", "e", "t", "1", "s", "t">>
    /\ Segment(text, 2) = <<"~">>
    /\ parsed.err = "WrongStructure"

-----------------------------------------------------------------------------
(* Properties of the close-method text codec *)

Called(fn) == call.fn = fn /\ returned.done

\* C15: TxoutMethod::from_str accepts exactly the spellings of 'opret1st' and
\* 'tapret1st' in any case and returns the matching method; to_string gives the
\* lowercase name; from_str(m.to_string()) = m; any other text fails with an
\* error that carries the text as it was given.
C15_MethodCodec ==
    /\ Called("TxoutMethod::from_str") =>
          LET t == call.input[1]
          IN /\ returned.ok <=> IsMethodText(t)
             /\ SpellsIgnoringCase(t, <<"o", "p", "r", "e", "t", "1", "s", "t">>)
                    => returned.value.method = "OpretFirst"
             /\ SpellsIgnoringCase(t, <<"t", "a", "p", "r", "e", "t", "1", "s", "t">>)
                    => returned.value.method = "TapretFirst"
             /\ ~returned.ok => returned.value.text = t
    /\ Called("TxoutMethod::to_string") =>
          /\ call.input[1] = "OpretFirst"
                => returned.value.text = <<"o", "p", "r", "e", "t", "1", "s", "t">>
          /\ call.input[1] = "TapretFirst"
                => returned.value.text = <<"t", "a", "p", "r", "e", "t", "1", "s", "t">>
          /\ returned.value.parsed.ok
          /\ returned.value.parsed.method = call.input[1]

\* from_str was called on 'Opret1st ' (a capital and a trailing space) and
\* failed with this very text
C15_Witness ==
    /\ Called("TxoutMethod::from_str")
    /\ call.input[1] = <<"O", "p", "r", "e", "t", "1", "s", "t", " ">>
    /\ ~returned.ok
    /\ returned.value.text = call.input[1]

-----------------------------------------------------------------------------
(* Properties of the taproot primitives *)

\* C16: XOR of parities is associative and commutative, Even is its identity
\* and every parity is its own inverse; Even ^ Odd = Odd and Odd ^ Odd = Even.
C16_ParityGroup ==
    Called("Parity::bitxor") =>
        LET a == call.input[1]
            b == call.input[2]
            v == returned.value
        IN /\ v.ab_c = v.a_bc
           /\ v.ab = v.ba
           /\ v.a_even = a
           /\ v.aa = "Even"
           /\ (a = "Even" /\ b = "Odd") => v.ab = "Odd"
           /\ (a = "Odd" /\ b = "Odd") => v.ab = "Even"

\* (Odd ^ Odd) ^ Odd and Odd ^ (Odd ^ Odd) were computed
C16_Witness ==
    /\ Called("Parity::bitxor")
    /\ call.input = <<"Odd", "Odd", "Odd">>
    /\ returned.value.ab = "Even"
    /\ returned.value.ab_c = "Odd"

\* a <= b in the lexicographic order of the bytes
LexLeq(a, b) ==
    \/ a = b
    \/ \E i \in 1..HashLen :
          a[i] < b[i] /\ SubSeq(a, 1, i - 1) = SubSeq(b, 1, i - 1)

\* C17: with_nodes(a, b) = with_nodes(b, a) for all node hashes, the hashed
\* bytes being the lesser node followed by the greater in the lexicographic
\* order of their bytes, also when a = b.
C17_BranchCommutes ==
    Called("TapBranchHash::with_nodes") =>
        LET a == call.input[1]
            b == call.input[2]
            v == returned.value
        IN /\ v.ab = v.ba
           /\ v.ab.tag = "TapBranch"
           /\ v.ab.data = (IF LexLeq(a, b) THEN a \o b ELSE b \o a)

\* with_nodes was called with the greater node first
C17_Witness ==
    /\ Called("TapBranchHash::with_nodes")
    /\ call.input[1] = [i \in 1..HashLen |-> IF i = 1 THEN 1 ELSE 0]
    /\ call.input[2] = [i \in 1..HashLen |-> IF i = 1 THEN 0 ELSE 255]
    /\ returned.value.ab.data = call.input[2] \o call.input[1]

\* C18: over the 256 bytes, from_consensus_u8(0xC0) is TapScript,
\* from_consensus_u8(0x50) fails, every odd byte fails, every other even byte v
\* gives Future(v), and to_consensus_u8 gives back every accepted byte.
C18_LeafVersions ==
    Called("LeafVer::from_consensus_u8") =>
        LET v == call.input[1]
            r == returned.value.ver
        IN /\ ~r.panic
           /\ v = 192 => (returned.ok /\ r.kind = "TapScript")
           /\ v = 80 => ~returned.ok
           /\ v % 2 = 1 => ~returned.ok
           /\ (v % 2 = 0 /\ v \notin {80, 192})
                => (returned.ok /\ r.kind = "Future" /\ r.version = v)
           /\ returned.ok => returned.value.consensus = v

\* from_consensus_u8 was called on the annex prefix and failed
C18_Witness ==
    /\ Called("LeafVer::from_consensus_u8")
    /\ call.input[1] = 80
    /\ ~returned.ok
    /\ returned.value.ver.kind = "InvalidLeafVer"

\* C19: every FutureLeafVer obtained from LeafVer::from_consensus_u8, from
\* strict decoding or as the strict-dumb value holds a byte v with
\* v & 0xFE = v, v # 0x50 and v # 0xC0.
C19_FutureValid ==
    (/\ \/ Called("LeafVer::from_consensus_u8")
        \/ Called("LeafVer::strict_decode")
        \/ Called("FutureLeafVer::strict_decode")
        \/ Called("FutureLeafVer::strict_dumb")
     /\ returned.ok
     /\ returned.value.ver.kind = "Future")
        => LET v == returned.value.ver.version
           IN v % 2 = 0 /\ v # 80 /\ v # 192

\* C20: try_from and try_from_iter succeed exactly for 0 to 128 branch hashes
\* and fail with a confinement error for 129 or more; the path built has the
\* elements given, in their order, and at most 128 of them.
C20_PathLength ==
    (Called("TapMerklePath::try_from") \/ Called("TapMerklePath::try_from_iter")) =>
        LET given == call.input[1]
        IN /\ returned.ok <=> Len(given) <= 128
           /\ ~returned.ok => returned.value.err = "confinement"
           /\ returned.ok => /\ Len(returned.value.path) <= 128
                             /\ returned.value.path = given

\* try_from_iter was given 129 branch hashes and failed
C20_Witness ==
    /\ Called("TapMerklePath::try_from_iter")
    /\ Len(call.input[1]) = 129
    /\ ~returned.ok

\* C21: every script that p2tr, p2tr_key_only, p2tr_scripted and p2tr_tweaked
\* return has 34 bytes, starts with OP_1 and 0x20 and satisfies is_p2tr;
\* is_p2tr(s) holds exactly when s has 34 bytes, the first OP_1 and the second
\* 0x20, and is false for every shorter script, the empty one included.
C21_P2trScripts ==
    /\ (\/ Called("ScriptPubkey::p2tr")
        \/ Called("ScriptPubkey::p2tr_key_only")
        \/ Called("ScriptPubkey::p2tr_scripted")
        \/ Called("ScriptPubkey::p2tr_tweaked")) =>
          /\ Len(returned.value.script) = 34
          /\ returned.value.script[1] = 81
          /\ returned.value.script[2] = 32
          /\ returned.value.is_p2tr
    /\ Called("ScriptPubkey::is_p2tr") =>
          LET script == call.input[1]
          IN /\ returned.ok
             /\ returned.value.is_p2tr <=>
                   (Len(script) = 34 /\ script[1] = 81 /\ script[2] = 32)
             /\ Len(script) < 34 => ~returned.value.is_p2tr

\* p2tr_scripted returned a script, and it carries the output key of p2tr for
\* the same key and root
C21_Witness ==
    /\ Called("ScriptPubkey::p2tr_scripted")
    /\ returned.value.is_p2tr
    /\ returned.value.script = p2tr(call.input[1], call.input[2])
    /\ SubSeq(returned.value.script, 3, 34) # call.input[1]

-----------------------------------------------------------------------------
(* Properties of the lock-script container *)

\* C22: reconstruct returns a container with the script and the key of the
\* proof, the tag supplied and no tweaking factor exactly when the source of
\* the proof is the LockScript variant; for every other variant it returns
\* InvalidProofStructure.
C22_Reconstruct ==
    Called("LockscriptContainer::reconstruct") =>
        LET proof == call.input[1]
            c == returned.value.container
        IN /\ returned.ok <=> proof.source.variant = "LockScript"
           /\ returned.ok =>
                 /\ c.script = proof.source.script
                 /\ c.pubkey = proof.pubkey
                 /\ c.tag = call.input[2]
                 /\ c.tweaking_factor = None
           /\ ~returned.ok => returned.value.err = "InvalidProofStructure"

\* reconstruct was given a proof of the Taproot variant and refused it
C22_Witness ==
    /\ Called("LockscriptContainer::reconstruct")
    /\ call.input[1].source.variant = "Taproot"
    /\ ~returned.ok
    /\ returned.value.err = "InvalidProofStructure"

-----------------------------------------------------------------------------
(* Properties of the lock-script commitment: the script returned *)

\* the tweaked key of a successful commitment: the key plus the stored factor
TweakedKey(c) == c.pubkey + c.tweaking_factor

CompressedHash(k) == hash160(to_bytes([key |-> k, compressed |-> TRUE]))

\* C23: in the script a successful embed_commit returns, every pk of the
\* point container.pubkey is the tweaked key in compressed encoding, every pk_h
\* of hash160(compressed container.pubkey) is hash160(compressed tweaked key),
\* and every other fragment is the original one, however many times the target
\* occurs.
C23_TotalSubstitution ==
    (last.called /\ last.ok) =>
        /\ Len(last.script) = Len(container.script)
        /\ \A i \in DOMAIN container.script :
              LET old == container.script[i]
                  new == last.script[i]
              IN IF old.op = "pk" /\ old.key = container.pubkey
                 THEN /\ new.op = "pk"
                      /\ new.key = TweakedKey(container)
                      /\ new.compressed
                 ELSE IF old.op = "pk_h" /\ old.hash = CompressedHash(container.pubkey)
                 THEN /\ new.op = "pk_h"
                      /\ new.hash = CompressedHash(TweakedKey(container))
                 ELSE new = old

\* a commitment succeeded on a script with the target key twice, and both
\* occurrences are the compressed tweaked key
C23_Witness ==
    /\ last.called /\ last.ok
    /\ Len(container.script) = 2
    /\ \A i \in 1..2 : container.script[i].op = "pk"
                        /\ container.script[i].key = container.pubkey
    /\ last.script[1] = last.script[2]
    /\ last.script[1].key = TweakedKey(container)
    /\ last.script[1].compressed

\* C24: the script of every successful embed_commit carries the commitment: it
\* holds the tweaked key or its hash160 at least once and differs from the
\* original script; embed_commit does not succeed without a substitution.
C24_CarriesCommitment ==
    (last.called /\ last.ok) =>
        /\ \E i \in DOMAIN last.script :
              \/ /\ last.script[i].op = "pk"
                 /\ last.script[i].key = TweakedKey(container)
              \/ /\ last.script[i].op = "pk_h"
                 /\ last.script[i].hash = CompressedHash(TweakedKey(container))
        /\ last.script # container.script
        /\ last.found > 0

\* C25: embed_commit does not fail because nothing was substituted: when the
\* script parses, has a key or a hash, passes the check of the key or of the
\* hashes and the key-set commitment and the rewriting of the script succeed,
\* Ok is returned, whatever the number of occurrences of the target.
C25_ZeroCountNoFailure ==
    last.called =>
        LET keys == {container.script[i].key : i \in PkOf(container.script)}
            hashes == {container.script[i].hash : i \in PkhOf(container.script)}
            known == {hash160(to_bytes([key |-> container.script[i].key,
                                        compressed |-> container.script[i].compressed])) :
                          i \in PkOf(container.script)}
                      \cup {CompressedHash(container.pubkey)}
            kc == KeysetCommitment_embed_commit(
                      [pubkey |-> container.pubkey, keyset |-> keys,
                       tag |-> container.tag, tweaking_factor |-> None], last.msg)
        IN (/\ parses(container.script)
            /\ Translatable(container.script)
            /\ keys \cup hashes # {}
            /\ hashes = {} => container.pubkey \in keys
            /\ hashes \subseteq known
            /\ kc.ok)
           => (last.ok /\ last.found = Cardinality({i \in DOMAIN container.script :
                                                       last.script[i] # container.script[i]}))

\* a commitment succeeded although no fragment of the script was replaced
C25_Witness ==
    /\ last.called /\ last.ok
    /\ last.found = 0
    /\ last.script = container.script
    /\ ~Occurs(container)

\* the call failed in the rewriting of the script: the script parses, passes
\* the checks of the keys and of the hashes, and cannot be translated
RewritingFailed ==
    /\ last.called /\ ~last.ok
    /\ last.err = "Miniscript"
    /\ parses(container.script)
    /\ ~Translatable(container.script)

\* C26: a call of embed_commit that returns an error, that of the rewriting of
\* the script included, leaves the container, tweaking_factor included, as it
\* was before the call
C26_AtomicFailure ==
    [][(last'.called /\ ~last'.ok) => container' = container]_vars

\* every error returned before the factor is stored leaves the container as
\* it was: all errors but that of the rewriting
C26_AtomicBeforeStore ==
    [][(last'.called /\ ~last'.ok /\ ~RewritingFailed') => container' = container]_vars

\* a call failed in the rewriting and the container holds another factor than
\* before the call
C26_RewritingFailureStores ==
    /\ RewritingFailed
    /\ container.tweaking_factor # last.before

\* the hashes of the keys of the script as they are encoded there, and the hash
\* of the compressed container key
EncodedHashes(c) ==
    {hash160(to_bytes([key |-> c.script[i].key,
                       compressed |-> c.script[i].compressed])) : i \in PkOf(c.script)}
        \cup {CompressedHash(c.pubkey)}

\* C27: on a script that parses, LockscriptContainsNoKeys is returned when the
\* script has neither a key nor a hash; otherwise, without hashes
\* LockscriptKeyNotFound is returned exactly when container.pubkey is not a key
\* of the script, and with hashes LockscriptContainsUnknownHashes is returned
\* exactly when a hash is outside key_hashes, and LockscriptKeyNotFound is not
\* returned whether or not container.pubkey is a key of the script.
C27_PolicyDecision ==
    (last.called /\ parses(container.script)) =>
        LET keys == {container.script[i].key : i \in PkOf(container.script)}
            hashes == {container.script[i].hash : i \in PkhOf(container.script)}
        IN IF keys = {} /\ hashes = {}
           THEN last.err = "LockscriptContainsNoKeys"
           ELSE /\ last.err # "LockscriptContainsNoKeys"
                /\ IF hashes = {}
                   THEN /\ last.err = "LockscriptKeyNotFound"
                             <=> container.pubkey \notin keys
                        /\ last.err # "LockscriptContainsUnknownHashes"
                   ELSE /\ last.err = "LockscriptContainsUnknownHashes"
                             <=> ~(hashes \subseteq EncodedHashes(container))
                        /\ last.err # "LockscriptKeyNotFound"

\* a script with keys and known hashes only, none of the keys being
\* container.pubkey: the call went past both checks and succeeded
C27_Witness ==
    /\ last.called /\ last.ok
    /\ PkOf(container.script) # {}
    /\ PkhOf(container.script) # {}
    /\ \A i \in PkOf(container.script) : container.script[i].key # container.pubkey

-----------------------------------------------------------------------------
(* Properties of the fields of a seal text *)

\* digits without an optional leading '+'
Unsigned(digits) ==
    IF digits # <<>> /\ digits[1] = "+" THEN SubSeq(digits, 2, Len(digits))
    ELSE digits

\* digits without leading zeros
Significant(digits) ==
    LET nonzero == {i \in DOMAIN digits : digits[i] # "0"}
    IN IF nonzero = {} THEN <<>>
       ELSE SubSeq(digits, Min(nonzero), Len(digits))

\* a <= b for two numerals of the same length
NumeralLeq(a, b) ==
    \/ a = b
    \/ \E i \in DOMAIN a :
          /\ HexVal(a[i]) < HexVal(b[i])
          /\ \A j \in 1..(i - 1) : a[j] = b[j]

\* the text without every leading repetition of '0x'
Unprefixed(s) ==
    LET k == CHOOSE n \in 0..(Len(s) \div 2) :
                 /\ \A j \in 1..n : s[2 * j - 1] = "0" /\ s[2 * j] = "x"
                 /\ ~(Len(s) >= 2 * n + 2 /\ s[2 * n + 1] = "0" /\ s[2 * n + 2] = "x")
    IN SubSeq(s, 2 * k + 1, Len(s))

\* a u64 in hexadecimal after the prefixes
ValidBlinding(s) ==
    LET digits == Unsigned(Unprefixed(s))
    IN /\ digits # <<>>
       /\ \A i \in DOMAIN digits : IsHex(digits[i])
       /\ Len(Significant(digits)) <= 16

ValidTxid(s) == Len(s) = 64 /\ \A i \in DOMAIN s : IsHex(s[i])

\* a u32 in decimal
ValidVout(s) ==
    LET digits == Unsigned(s)
        sig == Significant(digits)
    IN /\ digits # <<>>
       /\ \A i \in DOMAIN digits : IsDecimal(digits[i])
       /\ \/ Len(sig) < 10
          \/ /\ Len(sig) = 10
             /\ NumeralLeq(sig, <<"4", "2", "9", "4", "9", "6", "7", "2", "9", "5">>)

\* C29: for a string of four segments whose first is neither empty nor '~',
\* whose second is not empty and whose fourth starts with '0x', the error is
\* that of the first malformed field in the order method, blinding, txid
\* (not examined when it is '~'), vout, and the parse succeeds only when the
\* four fields are valid.
C29_FieldPrecedence ==
    (/\ parsed.done /\ ~displayed
     /\ NumSegments(text) = 4
     /\ Segment(text, 1) \notin {<<>>, <<"~">>}
     /\ Segment(text, 2) # <<>>
     /\ Len(Segment(text, 4)) >= 2
     /\ Segment(text, 4)[1] = "0" /\ Segment(text, 4)[2] = "x")
        => IF ~IsMethodText(Segment(text, 1))
           THEN ~parsed.ok /\ parsed.err = "WrongMethod"
           ELSE IF ~ValidBlinding(Segment(text, 4))
           THEN ~parsed.ok /\ parsed.err = "WrongBlinding"
           ELSE IF Segment(text, 2) # <<"~">> /\ ~ValidTxid(Segment(text, 2))
           THEN ~parsed.ok /\ parsed.err = "WrongTxid"
           ELSE IF ~ValidVout(Segment(text, 3))
           THEN ~parsed.ok /\ parsed.err = "WrongVout"
           ELSE parsed.ok

\* a string with a valid method and a malformed txid, vout and blinding was
\* parsed: the error is that of the blinding, the last field of the text
C29_Witness ==
    /\ parsed.done /\ ~displayed
    /\ NumSegments(text) = 4
    /\ IsMethodText(Segment(text, 1))
    /\ Segment(text, 2) = <<"z", "z">>
    /\ Segment(text, 3) = <<"a">>
    /\ Segment(text, 4) = <<"0", "x", "g">>
    /\ parsed.err = "WrongBlinding"

-----------------------------------------------------------------------------
(* Properties of the outpoint of a revealed seal *)

\* C30: Outpoint::try_from(r) and r.outpoint() give (r.txid, r.vout) when
\* r.txid is present, and WitnessVoutError and None when it is absent;
\* txid_or(d) and outpoint_or(d) take d in place of the txid only when it is
\* absent; RevealedSeal::from(outpoint) has the method TapretFirst, whatever
\* its blinding, and its outpoint is the one given.
C30_OutpointProjection ==
    /\ Called("RevealedSeal::outpoint") =>
          LET r == call.input[1]
              d == call.input[2]
              v == returned.value
              own == [txid |-> r.txid, vout |-> r.vout]
          IN IF r.txid # NoTxid
             THEN /\ v.try_from.ok /\ v.try_from.outpoint = own
                  /\ v.outpoint = own
                  /\ v.txid_or = r.txid
                  /\ v.outpoint_or = own
             ELSE /\ ~v.try_from.ok /\ v.try_from.err = "WitnessVoutError"
                  /\ v.outpoint = NoOutpoint
                  /\ v.txid_or = d
                  /\ v.outpoint_or = [txid |-> d, vout |-> r.vout]
    /\ Called("RevealedSeal::from") =>
          /\ returned.value.seal.method = "TapretFirst"
          /\ returned.value.back.ok
          /\ returned.value.back.outpoint = call.input[1]

\* the outpoint of a seal with a txid was asked with another txid as the
\* default, and the seal's own txid was used
C30_Witness ==
    /\ Called("RevealedSeal::outpoint")
    /\ call.input[1].txid # NoTxid
    /\ call.input[2] # call.input[1].txid
    /\ returned.value.outpoint_or.txid = call.input[1].txid
    /\ returned.value.outpoint = returned.value.outpoint_or

====
